---- MODULE Spec2Model ----
\* ExpenseFlow analytics dashboard: the controller (AnalyticsDashboard), the
\* data access layer (analytics-api.js) and the renderers, as one state machine.
\*
\* Granularity: one action is one event-loop task (a script load event, a DOM
\* event handler, a network response) together with the promise continuations
\* it runs synchronously or as microtasks.  The continuation of
\* loadAllAnalytics after "await Promise.allSettled" is kept as its own step
\* (FanIn); while it is pending no other task is dispatched, as microtasks
\* drain before the next task starts.
EXTENDS Integers, Sequences, FiniteSets, TLC

\* ---------------------------------------------------------------- bounds
MaxCalls == 2      \* invocations of loadAllAnalytics (init's one plus clicks)
MaxSelect == 1     \* selective trends reloads in flight at the same time
MaxRenders == 2    \* calls made to a renderer from outside the controller
MaxDay == 31       \* largest dayOfMonth a velocity payload carries
MaxClients == 2    \* clients that open a Socket.IO connection
MaxRequests == 1   \* sync_request events a client emits

\* ------------------------------------------------------------- constants
NumDependencies == 3
DefaultMonths == 6
ProgressDays == 30     \* the divisor of the velocity widget's progress
ProgressFull == 100    \* the cap of the progress width, in percent

\* The six analytical views, in the order loadAllAnalytics launches them.
ViewOrder == <<"trends", "category", "insights", "predictions", "velocity", "forecast">>
Views == {ViewOrder[i] : i \in 1..Len(ViewOrder)}

\* Output region (DOM container id) of each view.
Container ==
  [v \in Views |->
     CASE v = "trends" -> "trends-chart"
       [] v = "category" -> "category-chart"
       [] v = "insights" -> "insights-widget"
       [] v = "predictions" -> "predictions-widget"
       [] v = "velocity" -> "velocity-widget"
       [] v = "forecast" -> "forecast-widget"]

Containers == {Container[v] : v \in Views}

\* Cache slot (key of analyticsData) of each view.
Slot ==
  [v \in Views |->
     CASE v = "trends" -> "trends"
       [] v = "category" -> "categoryBreakdown"
       [] v = "insights" -> "insights"
       [] v = "predictions" -> "predictions"
       [] v = "velocity" -> "velocity"
       [] v = "forecast" -> "forecast"]

Slots == {Slot[v] : v \in Views}

\* Message each load*Data method passes to showChartError / showWidgetError.
ErrorMessage ==
  [v \in Views |->
     CASE v = "trends" -> "Failed to load spending trends"
       [] v = "category" -> "Failed to load category breakdown"
       [] v = "insights" -> "Failed to load insights"
       [] v = "predictions" -> "Failed to load predictions"
       [] v = "velocity" -> "Failed to load velocity data"
       [] v = "forecast" -> "Failed to load forecast data"]

Periods == {"monthly", "weekly"}
MonthsValues == {DefaultMonths, 3}

\* The option values of #analytics-months, as the change event carries them.
MonthsOptions == {"6", "3"}

\* parseInt(e.target.value) on those values.
parseInt(value) ==
  CASE value = "3" -> 3
    [] value = "6" -> 6

\* --------------------------------------------------------------- payloads
\* A payload is what the server put under "data" in its envelope:
\*   shape  "null" | "list" | "map"
\*   size   number of elements (list) or of own keys (map)
\*   cats   length of the payload's "categories" list, -1 when it has none
\*   period, months   the query the spending-trends data was computed for
\*   dayOfMonth       the payload's "dayOfMonth" number, -1 when it has none
NullData == [shape |-> "null", size |-> 0, cats |-> -1, period |-> "-", months |-> 0, dayOfMonth |-> -1]

ValidPayload(v, period, months) ==
  CASE v = "trends" -> [shape |-> "list", size |-> 1, cats |-> -1, period |-> period, months |-> months, dayOfMonth |-> -1]
    [] v = "category" -> [shape |-> "map", size |-> 2, cats |-> 1, period |-> "-", months |-> 0, dayOfMonth |-> -1]
    [] v = "insights" -> [shape |-> "list", size |-> 1, cats |-> -1, period |-> "-", months |-> 0, dayOfMonth |-> -1]
    [] v = "predictions" -> [shape |-> "list", size |-> 1, cats |-> -1, period |-> "-", months |-> 0, dayOfMonth |-> -1]
    [] v = "velocity" -> [shape |-> "map", size |-> 1, cats |-> -1, period |-> "-", months |-> 0, dayOfMonth |-> 15]
    [] v = "forecast" -> [shape |-> "map", size |-> 1, cats |-> -1, period |-> "-", months |-> 0, dayOfMonth |-> -1]

\* What the analytics service may answer to a request for view v.
ServerPayloads(v, period, months) == {NullData, ValidPayload(v, period, months)}

\* A response: HTTP status in the success range or not, body parseable as
\* JSON or not, and the envelope's data.
Responses(v, period, months) ==
  {[ok |-> FALSE, readable |-> TRUE, data |-> NullData],
   [ok |-> TRUE, readable |-> FALSE, data |-> NullData]}
  \cup {[ok |-> TRUE, readable |-> TRUE, data |-> d] : d \in ServerPayloads(v, period, months)}

\* -------------------------------------------------------------- numbers
\* A number is kept exactly, as a fraction <<numerator, denominator>> with a
\* positive denominator; NaN is <<0, 0>>.  (The engine computes in binary
\* floating point; the rounding of a quotient such as 7/30 is left out.)
NaN == <<0, 0>>
Number(n) == <<n, 1>>
IsNaN(a) == a[2] = 0

RECURSIVE GCD(_, _)
GCD(a, b) == IF b = 0 THEN a ELSE GCD(b, a % b)

Reduce(a) ==
  IF IsNaN(a) THEN NaN
  ELSE LET g == GCD(IF a[1] < 0 THEN -a[1] ELSE a[1], a[2]) IN <<a[1] \div g, a[2] \div g>>

\* a / b and a * b
Divide(a, b) ==
  IF IsNaN(a) \/ IsNaN(b) \/ b[1] = 0 THEN NaN
  ELSE IF b[1] > 0 THEN Reduce(<<a[1] * b[2], a[2] * b[1]>>)
  ELSE Reduce(<<-(a[1] * b[2]), a[2] * (-b[1])>>)

Times(a, b) == IF IsNaN(a) \/ IsNaN(b) THEN NaN ELSE Reduce(<<a[1] * b[1], a[2] * b[2]>>)

LessOrEqual(a, b) == ~IsNaN(a) /\ ~IsNaN(b) /\ a[1] * b[2] <= b[1] * a[2]

\* Math.min(a, b): NaN when either argument is NaN.
MathMin(a, b) ==
  IF IsNaN(a) \/ IsNaN(b) THEN NaN ELSE IF LessOrEqual(a, b) THEN a ELSE b

\* velocity.dayOfMonth as a number: undefined (-1 here) becomes NaN in the
\* division.
DayNumber(dayOfMonth) == IF dayOfMonth < 0 THEN NaN ELSE Number(dayOfMonth)

\* The progress width without the cap of Math.min.
progressPercentUncapped(dayOfMonth) ==
  Times(Divide(DayNumber(dayOfMonth), Number(ProgressDays)), Number(ProgressFull))

\* "const progressPercent = Math.min(100, (velocity.dayOfMonth / 30) * 100);"
progressPercent(dayOfMonth) ==
  MathMin(Number(ProgressFull),
          Times(Divide(DayNumber(dayOfMonth), Number(ProgressDays)), Number(ProgressFull)))

\* The width of a region that has no progress bar.
NoWidth == <<-1, 1>>

\* ------------------------------------------------------- region contents
InitialContent == [kind |-> "initial", text |-> "", data |-> NullData, width |-> NoWidth]
LoadingContent == [kind |-> "loading", text |-> "Loading...", data |-> NullData, width |-> NoWidth]
ErrorContent(message) == [kind |-> "error", text |-> message, data |-> NullData, width |-> NoWidth]
NoDataContent(message) == [kind |-> "nodata", text |-> message, data |-> NullData, width |-> NoWidth]
DrawnContent(v, payload) ==
  [kind |-> "drawn", text |-> v, data |-> payload,
   width |-> IF v = "velocity" THEN progressPercent(payload.dayOfMonth) ELSE NoWidth]

\* ------------------------------------------------------------ credentials
AbsentToken == "null"
TokenValues == {"t1"}
Truthy(tok) == tok # AbsentToken /\ tok # ""

\* ------------------------------------------------------- analytics-utils
\* The value of undefined (a missing property, an envelope without "data").
UndefinedData == [shape |-> "undefined", size |-> 0, cats |-> -1, period |-> "-", months |-> 0, dayOfMonth |-> -1]

\* A validity test that only rejects null and undefined.
isValidDataNonNull(data) ==
  IF data.shape \in {"null", "undefined"} THEN data.shape ELSE "true"

\* isValidData(data): data && (Array.isArray(data) ? data.length > 0
\*                                                 : Object.keys(data).length > 0)
\* The value of the expression: the operand itself when it is null or
\* undefined, otherwise the boolean of the length test.
isValidData(data) ==
  IF data.shape \in {"null", "undefined"} THEN data.shape
  ELSE IF data.shape = "list" THEN (IF data.size > 0 THEN "true" ELSE "false")
  ELSE (IF data.size > 0 THEN "true" ELSE "false")

\* The truth value a condition ("if (!x)") takes of such a value.
ToBoolean(value) == value = "true"

\* breakdown?.categories, as a payload of its own (undefined when the
\* breakdown is null or undefined or has no such property).
CategoriesOf(breakdown) ==
  IF breakdown.shape \in {"null", "undefined"} \/ breakdown.cats < 0 THEN UndefinedData
  ELSE [shape |-> "list", size |-> breakdown.cats, cats |-> -1, period |-> "-", months |-> 0, dayOfMonth |-> -1]

\* --------------------------------------------------- analytics-renderers
\* Each renderer maps (payload, regions) to the regions after the call,
\* whether the call threw, and what its isValidData call returned ("none"
\* when it made none).  DOMAIN reg is the set of containers present in the
\* document (document.getElementById finds exactly those).
CanvasContent(id) == [kind |-> "canvas", text |-> id, data |-> NullData, width |-> NoWidth]
HeaderContent(class) == [kind |-> "header", text |-> class, data |-> NullData, width |-> NoWidth]

\* container.innerHTML = ''
EmptyContent == [kind |-> "empty", text |-> "", data |-> NullData, width |-> NoWidth]

\* container.appendChild(child): the child comes after what is there.
appendChild(content, child) ==
  IF content.text = "" THEN child
  ELSE [kind |-> "mixed", text |-> content.text \o "+" \o child.text, data |-> child.data, width |-> NoWidth]

\* new Chart(canvas, ...): the chart of the payload, drawn on the canvas the
\* renderer has just appended; layout is what a cleared container holds then.
drawChart(content, layout, v, payload) ==
  IF content = layout THEN DrawnContent(v, payload)
  ELSE [kind |-> "mixed", text |-> content.text \o "+" \o v, data |-> payload, width |-> NoWidth]

\* renderTrendsChart returning on invalid data without a placeholder.
renderTrendsChartSilent(trends, reg) ==
  LET c == "trends-chart"
      canvas == CanvasContent("trends-line-chart")
      gate == isValidData(trends)
  IN
  IF c \notin DOMAIN reg THEN [threw |-> FALSE, gate |-> "none", reg |-> reg]
  ELSE IF ~ToBoolean(gate) THEN [threw |-> FALSE, gate |-> gate, reg |-> reg]
  ELSE IF trends.shape # "list"
    THEN [threw |-> TRUE, gate |-> gate, reg |-> [reg EXCEPT ![c] = canvas]]
  ELSE [threw |-> FALSE, gate |-> gate, reg |-> [reg EXCEPT ![c] = DrawnContent("trends", trends)]]

\* renderTrendsChart appending its canvas without clearing the container.
renderTrendsChartNoClear(trends, reg) ==
  LET c == "trends-chart"
      canvas == CanvasContent("trends-line-chart")
      gate == isValidData(trends)
  IN
  IF c \notin DOMAIN reg THEN [threw |-> FALSE, gate |-> "none", reg |-> reg]
  ELSE IF ~ToBoolean(gate)
    THEN [threw |-> FALSE, gate |-> gate,
          reg |-> [reg EXCEPT ![c] = NoDataContent("No trend data available")]]
  ELSE LET appended == appendChild(reg[c], canvas) IN
       IF trends.shape # "list"
         THEN [threw |-> TRUE, gate |-> gate, reg |-> [reg EXCEPT ![c] = appended]]
       ELSE [threw |-> FALSE, gate |-> gate,
             reg |-> [reg EXCEPT ![c] = drawChart(appended, canvas, "trends", trends)]]

renderTrendsChart(trends, reg) ==
  LET c == "trends-chart"
      canvas == CanvasContent("trends-line-chart")
      gate == isValidData(trends)
  IN
  IF c \notin DOMAIN reg THEN [threw |-> FALSE, gate |-> "none", reg |-> reg]
  ELSE IF ~ToBoolean(gate)
    THEN [threw |-> FALSE, gate |-> gate,
          reg |-> [reg EXCEPT ![c] = NoDataContent("No trend data available")]]
  ELSE LET appended == appendChild(EmptyContent, canvas) IN
       IF trends.shape # "list"
         \* trends.map is not a function: thrown after the canvas was appended
         THEN [threw |-> TRUE, gate |-> gate, reg |-> [reg EXCEPT ![c] = appended]]
       ELSE [threw |-> FALSE, gate |-> gate,
             reg |-> [reg EXCEPT ![c] = drawChart(appended, canvas, "trends", trends)]]

\* renderVelocityWidget reading the payload before it looks for its container.
renderVelocityWidgetReadFirst(velocity, reg) ==
  LET c == "velocity-widget" IN
  IF velocity.shape \in {"null", "undefined"}
    THEN [threw |-> TRUE, gate |-> "none", reg |-> reg]
  ELSE IF c \notin DOMAIN reg THEN [threw |-> FALSE, gate |-> "none", reg |-> reg]
  ELSE [threw |-> FALSE, gate |-> "none",
        reg |-> [reg EXCEPT ![c] = DrawnContent("velocity", velocity)]]

renderVelocityWidget(velocity, reg) ==
  LET c == "velocity-widget" IN
  IF c \notin DOMAIN reg THEN [threw |-> FALSE, gate |-> "none", reg |-> reg]
  ELSE IF velocity.shape \in {"null", "undefined"}
    \* velocity.dayOfMonth on null / undefined
    THEN [threw |-> TRUE, gate |-> "none", reg |-> reg]
  ELSE [threw |-> FALSE, gate |-> "none",
        reg |-> [reg EXCEPT ![c] = DrawnContent("velocity", velocity)]]

renderCategoryChart(breakdown, reg) ==
  LET c == "category-chart"
      gate == isValidData(CategoriesOf(breakdown))
      layout == appendChild(HeaderContent("category-chart-header"), CanvasContent("category-pie-chart"))
  IN
  IF c \notin DOMAIN reg THEN [threw |-> FALSE, gate |-> "none", reg |-> reg]
  ELSE IF ~ToBoolean(gate)
    THEN [threw |-> FALSE, gate |-> gate,
          reg |-> [reg EXCEPT ![c] = NoDataContent("No expense data available")]]
  ELSE LET header == appendChild(EmptyContent, HeaderContent("category-chart-header"))
           appended == appendChild(header, CanvasContent("category-pie-chart"))
       IN [threw |-> FALSE, gate |-> gate,
           reg |-> [reg EXCEPT ![c] = drawChart(appended, layout, "category", breakdown)]]

renderInsightsWidget(insights, reg) ==
  LET c == "insights-widget"
      gate == isValidData(insights)
  IN
  IF c \notin DOMAIN reg THEN [threw |-> FALSE, gate |-> "none", reg |-> reg]
  ELSE IF ~ToBoolean(gate)
    THEN [threw |-> FALSE, gate |-> gate,
          reg |-> [reg EXCEPT ![c] = NoDataContent("No insights available")]]
  ELSE IF insights.shape # "list"
    \* insights.map is not a function: thrown before innerHTML is assigned
    THEN [threw |-> TRUE, gate |-> gate, reg |-> reg]
  ELSE [threw |-> FALSE, gate |-> gate,
        reg |-> [reg EXCEPT ![c] = DrawnContent("insights", insights)]]

renderPredictionsWidget(predictions, reg) ==
  LET c == "predictions-widget"
      gate == isValidData(predictions)
  IN
  IF c \notin DOMAIN reg THEN [threw |-> FALSE, gate |-> "none", reg |-> reg]
  ELSE IF ~ToBoolean(gate)
    THEN [threw |-> FALSE, gate |-> gate,
          reg |-> [reg EXCEPT ![c] = NoDataContent("No predictions available")]]
  ELSE IF predictions.shape # "list"
    THEN [threw |-> TRUE, gate |-> gate, reg |-> reg]
  ELSE [threw |-> FALSE, gate |-> gate,
        reg |-> [reg EXCEPT ![c] = DrawnContent("predictions", predictions)]]

renderForecastWidget(forecast, reg) ==
  LET c == "forecast-widget"
      gate == isValidData(forecast)
  IN
  IF c \notin DOMAIN reg THEN [threw |-> FALSE, gate |-> "none", reg |-> reg]
  ELSE IF ~ToBoolean(gate)
    THEN [threw |-> FALSE, gate |-> gate,
          reg |-> [reg EXCEPT ![c] = NoDataContent("No forecast data available")]]
  ELSE [threw |-> FALSE, gate |-> gate,
        reg |-> [reg EXCEPT ![c] = DrawnContent("forecast", forecast)]]

\* window.AnalyticsRenderers: the renderer each load*Data method calls.
AnalyticsRenderers(v, payload, reg) ==
  CASE v = "trends" -> renderTrendsChart(payload, reg)
    [] v = "category" -> renderCategoryChart(payload, reg)
    [] v = "insights" -> renderInsightsWidget(payload, reg)
    [] v = "predictions" -> renderPredictionsWidget(payload, reg)
    [] v = "velocity" -> renderVelocityWidget(payload, reg)
    [] v = "forecast" -> renderForecastWidget(payload, reg)

\* ---------------------------------------------------------- analytics-api
\* getAuthHeaders(): the Authorization header built from the stored token.
getAuthHeaders(tok) == IF Truthy(tok) THEN "Bearer " \o tok ELSE ""

\* apiFetch without the token check.
apiFetchStartUnchecked(tok) == [threw |-> FALSE, sent |-> TRUE, auth |-> getAuthHeaders(tok)]

\* apiFetch with the store read at line 32 giving checked and the read
\* inside getAuthHeaders (called at line 38) giving read.
apiFetchWith(checked, read) ==
  IF ~Truthy(checked) THEN [threw |-> TRUE, sent |-> FALSE, auth |-> ""]
  ELSE [threw |-> FALSE, sent |-> TRUE, auth |-> getAuthHeaders(read)]

\* An apiFetch whose header read finds the store emptied since the check.
apiFetchStartLateRead(tok) == apiFetchWith(tok, AbsentToken)

\* apiFetch up to its first network wait: throws when there is no token,
\* otherwise issues the request with the headers of getAuthHeaders.  The
\* body of getAuthHeaders runs at its call, so both reads of the store are
\* made in one synchronous run and see the same token; the suspension
\* ("await getAuthHeaders()") comes after the header object is built.
apiFetchStart(tok) == apiFetchWith(tok, tok)

\* The error apiFetch throws without a token.
AuthError == [threw |-> TRUE, error |-> "auth", value |-> NullData]

\* apiFetch from the response on: status check, body parse, envelope unwrap.
apiFetchFinish(resp) ==
  IF ~resp.ok THEN [threw |-> TRUE, error |-> "http", value |-> NullData]
  ELSE IF ~resp.readable THEN [threw |-> TRUE, error |-> "body", value |-> NullData]
  ELSE [threw |-> FALSE, error |-> "none", value |-> resp.data]

\* A fetch operation that assigns its slot whether or not apiFetch threw.
fetchViewStoreAlways(v, res, cache) == [cache EXCEPT ![Slot[v]] = res.value]

\* A fetch operation that assigns the trends slot, whatever its view.
fetchViewStoreTrends(v, res, cache) ==
  IF res.threw THEN cache ELSE [cache EXCEPT !["trends"] = res.value]

\* fetch<View> after "await apiFetch": store the payload in the view's slot
\* (skipped when apiFetch threw) and hand the same result on.
fetchViewStore(v, res, cache) ==
  IF res.threw THEN cache ELSE [cache EXCEPT ![Slot[v]] = res.value]

\* A reset that clears the trends slot only.
clearedTrendsOnly(cache) == [cache EXCEPT !["trends"] = NullData]

\* clearAnalyticsData(): a fresh object with all six slots null.
clearedAnalyticsData(cache) == [s \in Slots |-> NullData]

\* ------------------------------------------------------------- controller
showChartError(containerId, message, reg) ==
  IF containerId \in DOMAIN reg THEN [reg EXCEPT ![containerId] = ErrorContent(message)] ELSE reg

showWidgetError(containerId, message, reg) ==
  IF containerId \in DOMAIN reg THEN [reg EXCEPT ![containerId] = ErrorContent(message)] ELSE reg

showLoadingState(reg) ==
  [c \in DOMAIN reg |-> IF c \in Containers THEN LoadingContent ELSE reg[c]]

\* Every catch block reporting into the trends container.
loadViewCatchTrendsOnly(v, reg) == showChartError("trends-chart", ErrorMessage[v], reg)

\* The catch block of the view's load*Data method.
loadViewCatch(v, reg) ==
  IF v \in {"trends", "category"}
    THEN showChartError(Container[v], ErrorMessage[v], reg)
    ELSE showWidgetError(Container[v], ErrorMessage[v], reg)

\* A load*Data method that renders what the cache slot holds.
loadViewArgumentFromCache(v, returned, cache) == cache[Slot[v]]

\* "const trends = await ...fetchSpendingTrends(...); renderTrendsChart(trends)":
\* the renderer's argument is the value the fetch operation returned.
loadViewArgument(v, returned, cache) == returned

\* load*Data after "await fetch<View>(...)": render the returned payload;
\* a throw of the fetch or of the renderer lands in the catch block, and the
\* method's promise fulfils either way.
\* load*Data with a catch block that reports and rethrows.
loadViewSettleRethrow(v, res, reg) ==
  IF res.threw THEN [status |-> "rejected", cause |-> "fetch", reg |-> loadViewCatch(v, reg)]
  ELSE LET r == AnalyticsRenderers(v, res.value, reg) IN
       IF r.threw THEN [status |-> "rejected", cause |-> "render", reg |-> loadViewCatch(v, r.reg)]
       ELSE [status |-> "fulfilled", cause |-> "none", reg |-> r.reg]

\* A load*Data method that leaves a widget already drawn as it is.
loadViewSettleKeepDrawn(v, res, reg) ==
  IF Container[v] \in DOMAIN reg /\ reg[Container[v]].kind = "drawn"
    THEN [status |-> "fulfilled", cause |-> "none", reg |-> reg]
  ELSE IF res.threw THEN [status |-> "fulfilled", cause |-> "fetch", reg |-> loadViewCatch(v, reg)]
  ELSE LET r == AnalyticsRenderers(v, res.value, reg) IN
       IF r.threw THEN [status |-> "fulfilled", cause |-> "render", reg |-> loadViewCatch(v, r.reg)]
       ELSE [status |-> "fulfilled", cause |-> "none", reg |-> r.reg]

\* "cause" tells which call console.error reported: "fetch" or "render".
loadViewSettle(v, res, reg) ==
  IF res.threw THEN [status |-> "fulfilled", cause |-> "fetch", reg |-> loadViewCatch(v, reg)]
  ELSE LET r == AnalyticsRenderers(v, res.value, reg) IN
       IF r.threw THEN [status |-> "fulfilled", cause |-> "render", reg |-> loadViewCatch(v, r.reg)]
       ELSE [status |-> "fulfilled", cause |-> "none", reg |-> r.reg]

\* A combinator that settles with the first settled promise (Promise.race).
raceReady(ts) == \E t \in ts : t.pc = "done"

\* Promise.allSettled(promises): settles once every promise has settled ...
allSettledReady(ts) == \A t \in ts : t.pc = "done"

\* ... and then fulfils, whatever the individual outcomes.  (The try block
\* of loadAllAnalytics holds only calls of async methods and this call, so
\* nothing in it throws synchronously on a platform that has allSettled.)
allSettledOutcome(ts) == "fulfilled"

\* ---------------------------------------------------------- server-config
\* The services initializeDatabase initialises, in the order of its calls.
ServiceOrder ==
  <<"CronJobs", "aiService", "currencyService", "internationalizationService",
    "taxService", "auditComplianceService", "advancedAnalyticsService", "fraudDetectionService">>

Services == {ServiceOrder[i] : i \in 1..Len(ServiceOrder)}

\* What the server process has done is kept as the sequence of its effects:
\*   "middleware"    the app.use(...) calls of initializeServer before its await
\*   "connected"     mongoose.connect resolved
\*   a service name  that service's init() returned
\*   "error"         the catch block of initializeDatabase logged and rethrew
\*   "socketio", "routes", "listen"   configureSocketIO, configureRoutes, server.listen
\*   "exit"          process.exit of the entry point's catch handler
\* The init() calls of the services, from the i-th on; failing is the service
\* whose init() throws ("none" when none does).
RECURSIVE initServices(_, _)
initServices(i, failing) ==
  IF i > Len(ServiceOrder) THEN [done |-> <<>>, threw |-> FALSE]
  ELSE IF ServiceOrder[i] = failing THEN [done |-> <<>>, threw |-> TRUE]
  ELSE LET rest == initServices(i + 1, failing)
       IN [done |-> <<ServiceOrder[i]>> \o rest.done, threw |-> rest.threw]

\* An initializeDatabase whose catch block logs the error and returns.
initializeDatabaseSwallow(connects, failing) ==
  IF ~connects THEN [done |-> <<"error">>, rejected |-> FALSE]
  ELSE LET inits == initServices(1, failing) IN
       [done |-> <<"connected">> \o inits.done \o (IF inits.threw THEN <<"error">> ELSE <<>>),
        rejected |-> FALSE]

\* initializeDatabase() from the settling of mongoose.connect on: a rejected
\* connect or a throwing init() lands in the catch block, which rethrows.
initializeDatabase(connects, failing) ==
  IF ~connects THEN [done |-> <<"error">>, rejected |-> TRUE]
  ELSE LET inits == initServices(1, failing) IN
       [done |-> <<"connected">> \o inits.done \o (IF inits.threw THEN <<"error">> ELSE <<>>),
        rejected |-> inits.threw]

\* initializeServer() after "await initializeDatabase()".
initializeServer(db) ==
  IF db.rejected THEN [done |-> db.done, rejected |-> TRUE]
  ELSE [done |-> db.done \o <<"socketio", "routes", "listen">>, rejected |-> FALSE]

\* The entry point: initializeServer().catch(error => process.exit(1)).
NoExit == -1
entryPoint(started) ==
  IF started.rejected
    THEN [pc |-> "exited", done |-> started.done \o <<"exit">>, exitCode |-> 1]
    ELSE [pc |-> "up", done |-> started.done, exitCode |-> NoExit]

ServerOff == [pc |-> "off", done |-> <<>>, exitCode |-> NoExit]

\* Clients and the connection each has with the server:
\*   pc       "none", "joining" (the connection handler awaits the workspace
\*            list), "ready" (it has registered the socket's handlers)
\*   open     the client is connected
\*   rooms    the rooms the socket has joined
\*   sent     sync_request events the client has emitted
\*   finds    SyncQueue.find queries of the sync_request handler under way
\*   replies  the sync_data / sync_error events emitted to the client
Clients == 1..MaxClients

NoSocket == [pc |-> "none", open |-> FALSE, rooms |-> {}, sent |-> 0, finds |-> 0, replies |-> <<>>]

\* The workspaces of every user, as collaborationService.getUserWorkspaces
\* returns them.
Workspaces == {"w1"}

\* io.on('connection', ...) up to "await getUserWorkspaces(socket.userId)":
\* the socket joins the room of its user.
connection(socket) == [socket EXCEPT !.pc = "joining", !.open = TRUE, !.rooms = {"user"}]

\* The rest of the connection handler: the socket joins the rooms of the
\* workspaces found (none when the lookup failed: the error is logged), then
\* the sync_request and disconnect handlers are registered.
connectionAfterAwait(socket, found) ==
  [socket EXCEPT !.pc = "ready",
                 !.rooms = IF found THEN @ \cup Workspaces ELSE @]

\* The socket receives a sync_request event: its listeners run; the handler
\* starts its query and awaits it.  Without a listener the event is dropped.
syncRequest(socket) ==
  [socket EXCEPT !.sent = @ + 1,
                 !.finds = IF socket.pc = "ready" THEN @ + 1 ELSE @]

\* The reply the sync_request handler emits once its query has settled.
syncReply(c, found) ==
  IF found THEN [event |-> "sync_data", user |-> c] ELSE [event |-> "sync_error", user |-> c]

\* ------------------------------------------------------------------ state
VARIABLES
  isLoading,        \* AnalyticsDashboard.isLoading
  currentPeriod,    \* AnalyticsDashboard.currentPeriod
  currentMonths,    \* AnalyticsDashboard.currentMonths
  region,           \* innerHTML of the six widget containers
  analyticsData,    \* the module-level cache of analytics-api.js
  authToken,        \* localStorage item 'authToken'
  tasks,            \* load*Data calls not yet joined, in launch order
  loaded,           \* loadAnalyticsDependencies: scripts that fired onload
  pendingScripts,   \* dependency scripts still being fetched
  bound,            \* bindEvents has attached the handlers
  banner,           \* global error banners shown by showErrorState
  calls,            \* invocations of loadAllAnalytics so far
  gen,              \* full refreshes that passed the isLoading guard
  hasAllSettled,    \* the engine's Promise has the allSettled method
  rendered,         \* the last call made to a renderer from outside the controller
  clearedAt,        \* history: the value of gen at the last reset of the cache that was noted
  server,           \* the server process: where it stands, what it has done, its exit code
  sockets           \* the Socket.IO connections of the server, by client

vars == <<isLoading, currentPeriod, currentMonths, region, analyticsData, authToken,
          tasks, loaded, pendingScripts, bound, banner, calls, gen, hasAllSettled, rendered, clearedAt, server, sockets>>

\* A task is one call of a load*Data method: the view, who launched it
\* ("refresh" with the refresh's number, "select", or "detached"), where it
\* stands ("net": awaiting the response, "got": its fetch operation has
\* returned and the method's continuation is queued, "done": promise
\* settled), how its promise settled, the request it issued, and the payload
\* its fetch operation returned while the continuation is queued.
Task(v, origin, g, pc, status, cause, period, months, auth) ==
  [view |-> v, origin |-> origin, gen |-> g, pc |-> pc, status |-> status, cause |-> cause,
   period |-> period, months |-> months, auth |-> auth, value |-> NullData]

\* Query parameters a load*Data method passes to its fetch operation.
QueryPeriod(v, period) == IF v = "trends" THEN period ELSE "-"

\* A loadTrendsData that leaves the months argument to its default.
QueryMonthsDefault(v, months) == IF v = "trends" THEN DefaultMonths ELSE 0

QueryMonths(v, months) == IF v = "trends" THEN months ELSE 0

\* Calling a load*Data method: runs synchronously into apiFetch.  Without a
\* token the rejection is handled by the catch block in the same turn.
loadViewStart(v, origin, g, period, months, tok, reg) ==
  LET s == apiFetchStart(tok) IN
  IF s.threw
    THEN LET r == loadViewSettle(v, AuthError, reg) IN
         [task |-> Task(v, origin, g, "done", r.status, r.cause, QueryPeriod(v, period), QueryMonths(v, months), s.auth),
          reg |-> r.reg]
    ELSE [task |-> Task(v, origin, g, "net", "pending", "none", QueryPeriod(v, period), QueryMonths(v, months), s.auth),
          reg |-> reg]

\* A driver that awaits each call before making the next: only the i-th
\* call is made before the first suspension.
launchAllSequential(i, g, period, months, tok, reg) ==
  LET one == loadViewStart(ViewOrder[i], "refresh", g, period, months, tok, reg)
  IN [tasks |-> <<one.task>>, reg |-> one.reg]

\* The array literal of loadAllAnalytics: the six calls in source order,
\* from the i-th on; yields the launched tasks and the regions afterwards.
RECURSIVE launchAll(_, _, _, _, _, _)
launchAll(i, g, period, months, tok, reg) ==
  IF i > Len(ViewOrder) THEN [tasks |-> <<>>, reg |-> reg]
  ELSE LET one == loadViewStart(ViewOrder[i], "refresh", g, period, months, tok, reg)
           rest == launchAll(i + 1, g, period, months, tok, one.reg)
       IN [tasks |-> <<one.task>> \o rest.tasks, reg |-> rest.reg]

RefreshTasks(g) == {i \in DOMAIN tasks : tasks[i].origin = "refresh" /\ tasks[i].gen = g}
SelectTasks == {i \in DOMAIN tasks : tasks[i].origin = "select"}
InFlight == {i \in DOMAIN tasks : tasks[i].pc = "net"}

\* A refresh whose six tasks have all settled: its continuation after
\* "await Promise.allSettled" is a queued microtask.
Joinable(g) == RefreshTasks(g) # {} /\ allSettledReady({tasks[i] : i \in RefreshTasks(g)})
MicrotaskPending == \E g \in 1..MaxCalls : Joinable(g)

Remove(seq, idx) == SubSeq(seq, 1, idx - 1) \o SubSeq(seq, idx + 1, Len(seq))
RemoveAll(seq, idxs) ==
  LET keep == SelectSeq([i \in 1..Len(seq) |-> i], LAMBDA i : i \notin idxs)
  IN [j \in 1..Len(keep) |-> seq[keep[j]]]

\* No renderer has been called from outside the controller.
NotRendered ==
  [view |-> "-", payload |-> NullData, threw |-> FALSE, gate |-> "none", again |-> FALSE, calls |-> 0]

\* The page as the dashboard script finds it.
InitPage ==
  /\ isLoading = FALSE
  /\ currentPeriod = "monthly"
  /\ currentMonths = DefaultMonths
  /\ region = [c \in Containers |-> InitialContent]
  /\ analyticsData = [s \in Slots |-> NullData]
  /\ authToken \in {AbsentToken} \cup TokenValues
  /\ tasks = <<>>
  /\ loaded = 0
  /\ pendingScripts = NumDependencies
  /\ bound = FALSE
  /\ banner = 0
  /\ calls = 0
  /\ gen = 0
  /\ rendered = NotRendered
  /\ clearedAt = 0
  /\ server = ServerOff
  /\ sockets = [s \in Clients |-> NoSocket]

\* The page in an engine that has Promise.allSettled.
Init == InitPage /\ hasAllSettled = TRUE

\* ---------------------------------------------------------------- actions
\* loadAllAnalytics without its reentrancy guard.
loadAllAnalyticsUnguarded(loading) == FALSE

\* "if (this.isLoading) return;"
loadAllAnalyticsGuard(loading) == loading

\* A loadAllAnalytics without its finally block.
loadAllAnalyticsNoFinally(loading) == loading

\* The finally block of loadAllAnalytics: "this.isLoading = false".
loadAllAnalyticsFinally(loading) == FALSE

\* showErrorState(message): one more banner appended to the document body,
\* with a timer armed to remove it.
showErrorState(banners) == banners + 1

\* The tasks of a refresh whose driver threw: nothing awaits them, and each
\* goes on to its response on its own.
Detached(ts) ==
  LET pending == SelectSeq(ts, LAMBDA t : t.pc = "net")
  IN [k \in 1..Len(pending) |-> [pending[k] EXCEPT !.origin = "detached"]]

\* loadAllAnalytics() up to "await Promise.allSettled(promises)".  In an
\* engine without Promise.allSettled the call throws a TypeError once the six
\* tasks have been launched: the catch block and the finally block run in
\* the same turn.
loadAllAnalytics ==
  /\ calls < MaxCalls
  /\ calls' = calls + 1
  /\ IF loadAllAnalyticsGuard(isLoading)
       THEN UNCHANGED <<isLoading, region, tasks, gen, banner>>
       ELSE LET la == launchAll(1, gen + 1, currentPeriod, currentMonths, authToken,
                                showLoadingState(region))
            IN /\ gen' = gen + 1
               /\ region' = la.reg
               /\ IF hasAllSettled
                    THEN /\ isLoading' = TRUE
                         /\ tasks' = tasks \o la.tasks
                         /\ banner' = banner
                    ELSE /\ isLoading' = loadAllAnalyticsFinally(TRUE)
                         /\ tasks' = tasks \o Detached(la.tasks)
                         /\ banner' = showErrorState(banner)
  /\ UNCHANGED <<currentPeriod, currentMonths, analyticsData, authToken, hasAllSettled, rendered, clearedAt, server, sockets>>

\* A barrier that opens on the first script.
dependenciesLoadedAny(n) == n >= 1

\* "if (loaded === dependencies.length) resolve();"
dependenciesLoaded(n) == n = NumDependencies

\* script.onload of one dependency; the last one resolves the promise init()
\* awaits, and init goes on to bindEvents() and loadAllAnalytics().
ScriptLoaded ==
  /\ pendingScripts > 0
  /\ pendingScripts' = pendingScripts - 1
  /\ loaded' = loaded + 1
  /\ IF dependenciesLoaded(loaded + 1)
       THEN bound' = TRUE /\ loadAllAnalytics
       ELSE UNCHANGED <<isLoading, currentPeriod, currentMonths, region, analyticsData,
                        authToken, tasks, bound, banner, calls, gen, hasAllSettled, rendered, clearedAt, server, sockets>>

\* A dependency script fails to load: no onerror handler is installed.
ScriptFailed ==
  /\ pendingScripts > 0
  /\ pendingScripts' = pendingScripts - 1
  /\ UNCHANGED <<isLoading, currentPeriod, currentMonths, region, analyticsData, authToken,
                 tasks, loaded, bound, banner, calls, gen, hasAllSettled, rendered, clearedAt, server, sockets>>

\* Click on #refresh-analytics.
RefreshClick ==
  /\ bound
  /\ ~MicrotaskPending
  /\ loadAllAnalytics
  /\ UNCHANGED <<loaded, pendingScripts, bound>>

\* A selective reload that honours the isLoading guard.
selectiveReloadGuarded(period, months) ==
  LET l == loadViewStart("trends", "select", 0, period, months, authToken, region) IN
  IF isLoading THEN UNCHANGED <<region, tasks>>
  ELSE /\ region' = l.reg
       /\ IF l.task.pc = "net"
            THEN Cardinality(SelectTasks) < MaxSelect /\ tasks' = Append(tasks, l.task)
            ELSE tasks' = tasks

\* this.loadTrendsData() called from a selector's change handler.
selectiveReload(period, months) ==
  LET l == loadViewStart("trends", "select", 0, period, months, authToken, region) IN
  /\ region' = l.reg
  /\ IF l.task.pc = "net"
       THEN Cardinality(SelectTasks) < MaxSelect /\ tasks' = Append(tasks, l.task)
       ELSE tasks' = tasks

\* 'change' on #analytics-period.
ChangePeriod(p) ==
  /\ bound
  /\ ~MicrotaskPending
  /\ p # currentPeriod
  /\ currentPeriod' = p
  /\ selectiveReload(p, currentMonths)
  /\ UNCHANGED <<isLoading, currentMonths, analyticsData, authToken, loaded, pendingScripts,
                 bound, banner, calls, gen, hasAllSettled, rendered, clearedAt, server, sockets>>

\* 'change' on #analytics-months.
ChangeMonths(value) ==
  /\ bound
  /\ ~MicrotaskPending
  /\ parseInt(value) # currentMonths
  /\ currentMonths' = parseInt(value)
  /\ selectiveReload(currentPeriod, currentMonths')
  /\ UNCHANGED <<isLoading, currentPeriod, analyticsData, authToken, loaded, pendingScripts,
                 bound, banner, calls, gen, hasAllSettled, rendered, clearedAt, server, sockets>>

\* The response to the request of task i arrives: apiFetch finishes, the
\* fetch operation stores the payload, load*Data renders it or shows the error.
Respond(i, resp) ==
  /\ i \in InFlight
  /\ ~MicrotaskPending
  /\ LET t == tasks[i]
         res == apiFetchFinish(resp)
         cache == fetchViewStore(t.view, res, analyticsData)
         arg == [res EXCEPT !.value = loadViewArgument(t.view, res.value, cache)]
         r == loadViewSettle(t.view, arg, region)
     IN /\ analyticsData' = cache
        /\ region' = r.reg
        /\ tasks' = IF t.origin # "refresh"
                      THEN Remove(tasks, i)
                      ELSE [tasks EXCEPT ![i].pc = "done", ![i].status = r.status,
                                          ![i].cause = r.cause]
  /\ UNCHANGED <<isLoading, currentPeriod, currentMonths, authToken, loaded, pendingScripts,
                 bound, banner, calls, gen, hasAllSettled, rendered, clearedAt, server, sockets>>

\* The same handler cut at the "await" of the load*Data method, for a page
\* whose own promise reactions run between the two halves.  First half: the
\* successful response to task i arrives, apiFetch returns and the fetch
\* operation stores and returns the payload.
FetchReturns(i, resp) ==
  /\ i \in InFlight
  /\ ~MicrotaskPending
  /\ LET t == tasks[i]
         res == apiFetchFinish(resp)
     IN /\ ~res.threw
        /\ analyticsData' = fetchViewStore(t.view, res, analyticsData)
        /\ tasks' = [tasks EXCEPT ![i].pc = "got", ![i].value = res.value]
  /\ UNCHANGED <<isLoading, currentPeriod, currentMonths, region, authToken, loaded,
                 pendingScripts, bound, banner, calls, gen, hasAllSettled, rendered, clearedAt, server, sockets>>

\* Second half: the continuation of the load*Data method renders.
Continue(i) ==
  /\ i \in DOMAIN tasks
  /\ tasks[i].pc = "got"
  /\ LET t == tasks[i]
         arg == [threw |-> FALSE, error |-> "none",
                 value |-> loadViewArgument(t.view, t.value, analyticsData)]
         r == loadViewSettle(t.view, arg, region)
     IN /\ region' = r.reg
        /\ tasks' = IF t.origin # "refresh"
                      THEN Remove(tasks, i)
                      ELSE [tasks EXCEPT ![i].pc = "done", ![i].status = r.status,
                                          ![i].cause = r.cause, ![i].value = NullData]
  /\ UNCHANGED <<isLoading, currentPeriod, currentMonths, analyticsData, authToken, loaded,
                 pendingScripts, bound, banner, calls, gen, hasAllSettled, rendered, clearedAt, server, sockets>>

\* loadAllAnalytics() of refresh g after "await Promise.allSettled": the
\* catch block when the awaited promise rejected, then the finally block.
FanIn(g) ==
  /\ Joinable(g)
  /\ LET outcome == allSettledOutcome({tasks[i] : i \in RefreshTasks(g)})
     IN banner' = IF outcome = "rejected" THEN showErrorState(banner) ELSE banner
  /\ isLoading' = loadAllAnalyticsFinally(isLoading)
  /\ tasks' = RemoveAll(tasks, RefreshTasks(g))
  /\ UNCHANGED <<currentPeriod, currentMonths, region, analyticsData, authToken, loaded,
                 pendingScripts, bound, calls, gen, hasAllSettled, rendered, clearedAt, server, sockets>>

\* localStorage.setItem('authToken', t) by the login flow.
SetToken(t) ==
  /\ ~MicrotaskPending
  /\ t # authToken
  /\ authToken' = t
  /\ UNCHANGED <<isLoading, currentPeriod, currentMonths, region, analyticsData, tasks,
                 loaded, pendingScripts, bound, banner, calls, gen, hasAllSettled, rendered, clearedAt, server, sockets>>

\* localStorage.removeItem('authToken') by the logout flow.
RemoveToken ==
  /\ ~MicrotaskPending
  /\ authToken # AbsentToken
  /\ authToken' = AbsentToken
  /\ UNCHANGED <<isLoading, currentPeriod, currentMonths, region, analyticsData, tasks,
                 loaded, pendingScripts, bound, banner, calls, gen, hasAllSettled, rendered, clearedAt, server, sockets>>

\* The effect of a call of window.AnalyticsAPI.clearAnalyticsData() on the
\* program's state.
clearAnalyticsDataCall ==
  /\ loaded = NumDependencies
  /\ ~MicrotaskPending
  /\ analyticsData' = clearedAnalyticsData(analyticsData)
  /\ UNCHANGED <<isLoading, currentPeriod, currentMonths, region, authToken, tasks,
                 loaded, pendingScripts, bound, banner, calls, gen, hasAllSettled, rendered,
                 server, sockets>>

\* window.AnalyticsAPI.clearAnalyticsData().
clearAnalyticsData == clearAnalyticsDataCall /\ UNCHANGED clearedAt

\* The same call, with the history noting which refreshes came before it.
clearAnalyticsDataNoted == clearAnalyticsDataCall /\ clearedAt' = gen

\* The timer of showErrorState fires: "errorDiv.remove()".
BannerTimeout ==
  /\ banner > 0
  /\ ~MicrotaskPending
  /\ banner' = banner - 1
  /\ UNCHANGED <<isLoading, currentPeriod, currentMonths, region, analyticsData, authToken,
                 tasks, loaded, pendingScripts, bound, calls, gen, hasAllSettled, rendered, clearedAt, server, sockets>>

\* Click on #refresh-analytics once the responses of the previous refresh
\* have all arrived.
RefreshClickWhenQuiet == InFlight = {} /\ RefreshClick

\* The analytics service answers a request in flight.
ServerResponds ==
  \E i \in DOMAIN tasks :
    \E resp \in Responses(tasks[i].view, tasks[i].period, tasks[i].months) : Respond(i, resp)

\* The continuation of a full refresh runs.
Join == \E g \in 1..MaxCalls : FanIn(g)

\* Full refreshes (init's and the refresh button's) against a service that
\* may fail any request, while the user logs in and out; the selectors are
\* left alone.
Next ==
  \/ ScriptLoaded
  \/ ScriptFailed
  \/ RefreshClick
  \/ ServerResponds
  \/ Join
  \/ \E t \in TokenValues : SetToken(t)
  \/ RemoveToken

Spec == Init /\ [][Next]_vars

\* Full refreshes against the same service while the cache is reset from
\* outside; the token stays as the page found it.
NextCache ==
  \/ ScriptLoaded
  \/ ScriptFailed
  \/ RefreshClick
  \/ ServerResponds
  \/ Join
  \/ clearAnalyticsData

SpecCache == Init /\ [][NextCache]_vars

\* Answers of a service that has data for every view but spending trends,
\* and may still fail any request.
ResponsesWithData(v, period, months) ==
  {r \in Responses(v, period, months) :
     v # "trends" /\ r.ok /\ r.readable => r.data = ValidPayload(v, period, months)}

ServerRespondsWithData ==
  \E i \in DOMAIN tasks :
    \E resp \in ResponsesWithData(tasks[i].view, tasks[i].period, tasks[i].months) : Respond(i, resp)

\* Tokens the login flow may store: two bearer tokens and the empty string.
StoredTokens == TokenValues \cup {"t2", ""}

\* Answers of a service that has data for every view, and may still refuse
\* any request.
ResponsesOrRefusals(v, period, months) ==
  {r \in Responses(v, period, months) :
     r.readable /\ (r.ok => r.data = ValidPayload(v, period, months))}

ServerRespondsOrRefuses ==
  \E i \in DOMAIN tasks :
    \E resp \in ResponsesOrRefusals(tasks[i].view, tasks[i].period, tasks[i].months) : Respond(i, resp)

\* Full refreshes while the login flow stores, replaces and removes the token.
NextAuth ==
  \/ ScriptLoaded
  \/ ScriptFailed
  \/ RefreshClick
  \/ ServerRespondsOrRefuses
  \/ Join
  \/ \E t \in StoredTokens : SetToken(t)
  \/ RemoveToken

SpecAuth == Init /\ [][NextAuth]_vars

\* ------------------------------------------------- the renderers alone
\* Payloads handed to a renderer: null, undefined, lists of 0..2 elements,
\* mappings of 0..2 keys, without a category list or with one of 0 or 1.
ListData(n) == [shape |-> "list", size |-> n, cats |-> -1, period |-> "-", months |-> 0, dayOfMonth |-> -1]
MapData(n, cats) == [shape |-> "map", size |-> n, cats |-> cats, period |-> "-", months |-> 0, dayOfMonth |-> -1]

RenderInputs ==
  {NullData, UndefinedData, ListData(0), ListData(1), ListData(2),
   MapData(0, -1), MapData(1, -1), MapData(1, 0), MapData(2, 1)}

\* Documents the renderers may find: all six containers or all but one,
\* holding what the page or the controller left in them.
Mountings == {Containers} \cup {Containers \ {c} : c \in Containers}

PriorContents ==
  {InitialContent, LoadingContent, ErrorContent("Failed to load"), NoDataContent("No data available")}

\* A page that has loaded the three scripts and calls one renderer of
\* window.AnalyticsRenderers itself.
InitRender ==
  /\ isLoading = FALSE
  /\ currentPeriod = "monthly"
  /\ currentMonths = DefaultMonths
  /\ region \in {[c \in m |-> prior] : m \in Mountings, prior \in PriorContents}
  /\ analyticsData = [s \in Slots |-> NullData]
  /\ authToken = AbsentToken
  /\ tasks = <<>>
  /\ loaded = NumDependencies
  /\ pendingScripts = 0
  /\ bound = FALSE
  /\ banner = 0
  /\ calls = 0
  /\ gen = 0
  /\ hasAllSettled = TRUE
  /\ rendered \in {[NotRendered EXCEPT !.view = v] : v \in Views}
  /\ clearedAt = 0
  /\ server = ServerOff
  /\ sockets = [s \in Clients |-> NoSocket]

\* window.AnalyticsRenderers.render<Widget>(payload), called directly.
RenderCall(payload) ==
  /\ rendered.calls < MaxRenders
  /\ LET r == AnalyticsRenderers(rendered.view, payload, region)
     IN /\ region' = r.reg
        /\ rendered' = [view |-> rendered.view, payload |-> payload, threw |-> r.threw,
                        gate |-> r.gate,
                        again |-> (rendered.calls > 0 /\ payload = rendered.payload),
                        calls |-> rendered.calls + 1]
  /\ UNCHANGED <<isLoading, currentPeriod, currentMonths, analyticsData, authToken, tasks,
                 loaded, pendingScripts, bound, banner, calls, gen, hasAllSettled, clearedAt, server, sockets>>

NextRender == \E payload \in RenderInputs : RenderCall(payload)

SpecRender == InitRender /\ [][NextRender]_vars

\* The velocity payload of a given day of the month (the other four fields
\* are only formatted).
VelocityData(day) == [MapData(5, -1) EXCEPT !.dayOfMonth = day]

\* A page that calls the velocity renderer itself, with the payloads of the
\* days of a month.
InitVelocity == InitRender /\ rendered.view = "velocity"

NextVelocity == \E day \in 1..MaxDay : RenderCall(VelocityData(day))

SpecVelocity == InitVelocity /\ [][NextVelocity]_vars

\* A continuation of a load*Data method is queued.
GotPending == \E j \in DOMAIN tasks : tasks[j].pc = "got"

\* The service answers with data (first half of the handler); while a
\* continuation is queued, only another fetch of the same view returns.
ServerReturnsData ==
  \E i \in DOMAIN tasks :
    \E resp \in ResponsesOrRefusals(tasks[i].view, tasks[i].period, tasks[i].months) :
      /\ \A j \in DOMAIN tasks : tasks[j].pc = "got" => tasks[j].view = tasks[i].view
      /\ FetchReturns(i, resp)

\* The service refuses (the whole handler: nothing is stored or rendered on
\* that path).
ServerRefuses ==
  \E i \in DOMAIN tasks :
    \E resp \in ResponsesOrRefusals(tasks[i].view, tasks[i].period, tasks[i].months) :
      ~GotPending /\ ~resp.ok /\ Respond(i, resp)

Continues == \E i \in DOMAIN tasks : Continue(i)

\* A reset made by a promise reaction of the page that runs while a
\* continuation is queued.
ResetBetween == GotPending /\ clearAnalyticsData

\* 'change' on #analytics-months, dispatched once the queue has drained.
ChangeMonthsWhenDrained == \E value \in MonthsOptions : ~GotPending /\ ChangeMonths(value)

\* init's refresh and month-window reloads, with cache resets and other
\* returns of the same view between a fetch operation's return and the
\* render.
NextHop ==
  \/ ScriptLoaded
  \/ ScriptFailed
  \/ ChangeMonthsWhenDrained
  \/ ServerReturnsData
  \/ ServerRefuses
  \/ Continues
  \/ Join
  \/ ResetBetween

SpecHop == Init /\ [][NextHop]_vars

\* Answers of a service that has data for every view and may refuse the
\* requests for spending trends.
ResponsesTrendsRefused(v, period, months) ==
  {r \in ResponsesOrRefusals(v, period, months) : v # "trends" => r.ok}

ServerRespondsTrendsRefused ==
  \E i \in DOMAIN tasks :
    \E resp \in ResponsesTrendsRefused(tasks[i].view, tasks[i].period, tasks[i].months) :
      Respond(i, resp)

\* A reset made (on logout, say) when no task is out.
ResetWhenQuiet == tasks = <<>> /\ clearAnalyticsData

\* Full refreshes, both selectors and cache resets against such a service.
NextConfig ==
  \/ ScriptLoaded
  \/ ScriptFailed
  \/ RefreshClickWhenQuiet
  \/ \E p \in Periods : ChangePeriod(p)
  \/ \E value \in MonthsOptions : ChangeMonths(value)
  \/ ServerRespondsTrendsRefused
  \/ Join
  \/ ResetWhenQuiet

SpecConfig == Init /\ [][NextConfig]_vars

\* Answers of a service that has data for every view and refuses nothing.
ResponsesData(v, period, months) ==
  {r \in ResponsesOrRefusals(v, period, months) : r.ok}

ServerRespondsData ==
  \E i \in DOMAIN tasks :
    \E resp \in ResponsesData(tasks[i].view, tasks[i].period, tasks[i].months) : Respond(i, resp)

\* Full refreshes and both selectors against such a service: every trends
\* fetch that is issued succeeds, in whatever order the responses arrive.
NextRace ==
  \/ ScriptLoaded
  \/ ScriptFailed
  \/ RefreshClick
  \/ \E p \in Periods : ChangePeriod(p)
  \/ \E value \in MonthsOptions : ChangeMonths(value)
  \/ ServerRespondsData
  \/ Join

SpecRace == Init /\ [][NextRace]_vars

\* ----------------------------------------------------------- the server
dashboardVars ==
  <<isLoading, currentPeriod, currentMonths, region, analyticsData, authToken, tasks, loaded,
    pendingScripts, bound, banner, calls, gen, hasAllSettled, rendered, clearedAt>>

\* The entry point calls initializeServer(), which sets up the middleware
\* and awaits initializeDatabase(), itself awaiting mongoose.connect.
StartServer ==
  /\ server.pc = "off"
  /\ server' = [server EXCEPT !.pc = "connecting", !.done = <<"middleware">>]
  /\ UNCHANGED <<dashboardVars, sockets>>

\* mongoose.connect settles: the rest of initializeDatabase, then of
\* initializeServer, then the entry point's catch handler run in turn.
ConnectSettles(connects, failing) ==
  /\ server.pc = "connecting"
  /\ LET e == entryPoint(initializeServer(initializeDatabase(connects, failing)))
     IN server' = [e EXCEPT !.done = server.done \o e.done]
  /\ UNCHANGED <<dashboardVars, sockets>>

\* The callback of server.listen: the port is open.
Listening ==
  /\ server.pc = "up"
  /\ server' = [server EXCEPT !.pc = "listening"]
  /\ UNCHANGED <<dashboardVars, sockets>>

\* An authenticated client connects (socketAuth let it through).
Connect(c) ==
  /\ server.pc = "listening"
  /\ "socketio" \in {server.done[k] : k \in DOMAIN server.done}
  /\ sockets[c].pc = "none"
  /\ sockets' = [sockets EXCEPT ![c] = connection(@)]
  /\ UNCHANGED <<dashboardVars, server>>

\* collaborationService.getUserWorkspaces settles for the socket of c.
WorkspacesSettle(c, found) ==
  /\ sockets[c].pc = "joining"
  /\ sockets' = [sockets EXCEPT ![c] = connectionAfterAwait(@, found)]
  /\ UNCHANGED <<dashboardVars, server>>

\* Client c emits sync_request.
SyncRequest(c) ==
  /\ sockets[c].open
  /\ sockets[c].sent < MaxRequests
  /\ sockets' = [sockets EXCEPT ![c] = syncRequest(@)]
  /\ UNCHANGED <<dashboardVars, server>>

\* A query of the sync_request handler settles: sync_data with the queue
\* found, or sync_error; nothing reaches a client that has disconnected.
FindSettles(c, found) ==
  /\ sockets[c].finds > 0
  /\ sockets' = [sockets EXCEPT ![c].finds = @ - 1,
                                ![c].replies = IF sockets[c].open
                                                 THEN Append(@, syncReply(c, found)) ELSE @]
  /\ UNCHANGED <<dashboardVars, server>>

\* Client c disconnects.
Disconnect(c) ==
  /\ sockets[c].open
  /\ sockets' = [sockets EXCEPT ![c].open = FALSE]
  /\ UNCHANGED <<dashboardVars, server>>

\* The server process from its start, and the clients of its sockets.
NextServer ==
  \/ StartServer
  \/ \E failing \in Services \cup {"none"} : ConnectSettles(TRUE, failing)
  \/ ConnectSettles(FALSE, "none")
  \/ Listening
  \/ \E c \in Clients : Connect(c)
  \/ \E c \in Clients, found \in BOOLEAN : WorkspacesSettle(c, found)
  \/ \E c \in Clients : SyncRequest(c)
  \/ \E c \in Clients, found \in BOOLEAN : FindSettles(c, found)
  \/ \E c \in Clients : Disconnect(c)

\* No browser is involved: the page's state stays as it starts.
InitServer == Init /\ authToken = AbsentToken

SpecServer == InitServer /\ [][NextServer]_vars

\* Full refreshes against a service that answers with data or refuses,
\* while the page (its logout or reset flow) resets the cache at any moment.
NextReset ==
  \/ ScriptLoaded
  \/ ScriptFailed
  \/ RefreshClick
  \/ ServerRespondsOrRefuses
  \/ Join
  \/ clearAnalyticsDataNoted

SpecReset == Init /\ [][NextReset]_vars

\* The page in an engine without Promise.allSettled (ES2020).
InitLegacy == InitPage /\ hasAllSettled = FALSE

\* Full refreshes in such an engine: the driver fails each time; the banner's
\* timer always fires in the end.
NextDriver ==
  \/ ScriptLoaded
  \/ ScriptFailed
  \/ RefreshClickWhenQuiet
  \/ ServerResponds
  \/ BannerTimeout

SpecDriver == InitLegacy /\ [][NextDriver]_vars /\ WF_vars(BannerTimeout)

\* Full refreshes alone: the token stays as the page found it and the cache
\* is never reset.
NextRefresh ==
  \/ ScriptLoaded
  \/ ScriptFailed
  \/ RefreshClick
  \/ ServerResponds
  \/ Join

\* The scheduling the event loop gives (a queued continuation runs) and a
\* service that answers every request.
LiveSpec == Init /\ [][NextRefresh]_vars /\ WF_vars(Join) /\ WF_vars(ServerResponds)

\* init's full refresh overlapped by selective reloads from the two selectors.
NextSelect ==
  \/ ScriptLoaded
  \/ ScriptFailed
  \/ \E p \in Periods : ChangePeriod(p)
  \/ \E value \in MonthsOptions : ChangeMonths(value)
  \/ ServerRespondsWithData
  \/ Join

SpecSelect == Init /\ [][NextSelect]_vars

\* ================================================================ claims
RefreshIndexes == {i \in DOMAIN tasks : tasks[i].origin = "refresh"}

\* Task i settles in this step (its promise goes from pending to settled).
Settles(i) ==
  /\ i \in DOMAIN tasks /\ tasks[i].pc = "net"
  /\ i \in DOMAIN tasks' /\ tasks'[i].pc = "done"

\* This step is a call of loadAllAnalytics that passed the guard.
StartsRefresh == gen' = gen + 1

OwnError(v) == ErrorContent(ErrorMessage[v])

\* C1: a call of loadAllAnalytics made while isLoading is true changes nothing
\* (isLoading stays true, no region is written, no task is launched), and at
\* no time are more than six refresh-originated tasks, all of one refresh,
\* unjoined.
ReentrantCallIsNoOp ==
  (isLoading /\ calls' = calls + 1) =>
     UNCHANGED <<isLoading, currentPeriod, currentMonths, region, analyticsData, authToken,
                 tasks, loaded, pendingScripts, bound, banner, gen>>

AtMostOneRefreshInFlight ==
  /\ Cardinality(RefreshIndexes) <= Len(ViewOrder)
  /\ \A i, j \in RefreshIndexes : tasks[i].gen = tasks[j].gen

C1_Reentrancy == [][ReentrantCallIsNoOp]_vars /\ []AtMostOneRefreshInFlight

\* A refresh click was ignored while the six tasks of the refresh were out.
C1_Witness ==
  /\ isLoading /\ calls > gen
  /\ Cardinality(RefreshIndexes) = Len(ViewOrder)
  /\ \E i \in RefreshIndexes : tasks[i].pc = "net"

\* C2: when the fetch of a widget task of a full refresh fails, that widget's
\* region shows the widget's own error message, every other region keeps its
\* content and every other task is left as it was; when the whole refresh is
\* launched without a token each region shows its own error message.
FailureIsIsolated ==
  /\ \A i \in DOMAIN tasks :
       (Settles(i) /\ tasks'[i].cause = "fetch") =>
          /\ region'[Container[tasks[i].view]] = OwnError(tasks[i].view)
          /\ \A c \in Containers \ {Container[tasks[i].view]} : region'[c] = region[c]
          /\ \A j \in DOMAIN tasks \ {i} : j \in DOMAIN tasks' /\ tasks'[j] = tasks[j]
  /\ (StartsRefresh /\ ~Truthy(authToken)) =>
          \A v \in Views : region'[Container[v]] = OwnError(v)

C2_Isolation == [][FailureIsIsolated]_vars

\* One fetch of a refresh has failed, a sibling has drawn its data, and a
\* third one is still in flight.
C2_Witness ==
  \E i, j, k \in RefreshIndexes :
    /\ tasks[i].pc = "done" /\ tasks[i].cause = "fetch"
    /\ region[Container[tasks[i].view]] = OwnError(tasks[i].view)
    /\ tasks[j].pc = "done" /\ region[Container[tasks[j].view]].kind = "drawn"
    /\ tasks[k].pc = "net"

\* C3: a full refresh leaves the loading state only when all six of its
\* tasks have settled, and every refresh that entered the loading state
\* returns to idle, whichever of its fetches or renders failed.
IdleOnlyAfterAllSettled ==
  (isLoading /\ ~isLoading') =>
     /\ Cardinality(RefreshIndexes) = Len(ViewOrder)
     /\ \A i \in RefreshIndexes : tasks[i].pc = "done"

C3_ReturnsToIdle == [][IdleOnlyAfterAllSettled]_vars /\ (isLoading ~> ~isLoading)

\* A refresh is back to idle with one region in error and another one drawn.
C3_Witness ==
  /\ ~isLoading /\ gen >= 1 /\ RefreshIndexes = {}
  /\ \E c, d \in Containers : region[c].kind = "error" /\ region[d].kind = "drawn"

\* C4: whenever the controller is idle no region shows the loading
\* placeholder; once a refresh has run, every region holds a drawn widget, a
\* no-data placeholder or an error message.
C4_NoStaleSpinner ==
  ~isLoading =>
     \A c \in Containers :
        /\ region[c] # LoadingContent
        /\ gen > 0 => region[c].kind \in {"drawn", "nodata", "error"}

\* The refresh is over while a selective reload is still in flight, with an
\* error message and a no-data placeholder among the regions.
C4_Witness ==
  /\ ~isLoading /\ gen = 1
  /\ \E i \in DOMAIN tasks : tasks[i].origin = "select" /\ tasks[i].pc = "net"
  /\ \E c, d \in Containers : region[c].kind = "error" /\ region[d].kind = "nodata"

\* C5: a widget task whose fetch or render threw has its own error message
\* in its region and a fulfilled promise, and no global banner is ever shown.
C5_TaskFailureContained ==
  /\ banner = 0
  /\ \A i \in DOMAIN tasks :
       tasks[i].pc = "done" =>
          /\ tasks[i].status = "fulfilled"
          /\ tasks[i].cause # "none" => region[Container[tasks[i].view]] = OwnError(tasks[i].view)

\* One task of the refresh failed in its fetch and another in its renderer.
C5_Witness ==
  /\ isLoading
  /\ \E i, j \in RefreshIndexes :
       /\ tasks[i].pc = "done" /\ tasks[i].cause = "fetch"
       /\ tasks[j].pc = "done" /\ tasks[j].cause = "render"

\* C6: fetch operations called while the store holds no token fail without
\* issuing a request and without changing any cache slot.
NewTasks == {i \in DOMAIN tasks' : i > Len(tasks)}

NoTokenNoRequest ==
  (StartsRefresh /\ ~Truthy(authToken)) =>
     /\ analyticsData' = analyticsData
     /\ Cardinality(NewTasks) = Len(ViewOrder)
     /\ \A i \in NewTasks :
          tasks'[i].pc = "done" /\ tasks'[i].cause = "fetch" /\ tasks'[i].auth = ""
     /\ {i \in DOMAIN tasks' : tasks'[i].pc = "net"} = InFlight

C6_NoTokenNoRequest == [][NoTokenNoRequest]_vars

\* A second refresh was launched after the token had been removed: its six
\* fetches failed without a request, and the cache of the first is intact.
C6_Witness ==
  /\ gen = 2 /\ ~Truthy(authToken)
  /\ Cardinality(RefreshIndexes) = Len(ViewOrder)
  /\ \A i \in RefreshIndexes : tasks[i].pc = "done" /\ tasks[i].auth = ""
  /\ \E s \in Slots : analyticsData[s] # NullData

\* C7: a failed fetch (no token, HTTP failure, unreadable body) leaves the
\* cache slot of its view as it was and puts the error message in the region.
LastGoodValueKept ==
  /\ \A i \in DOMAIN tasks :
       (Settles(i) /\ tasks'[i].cause = "fetch") =>
          /\ analyticsData'[Slot[tasks[i].view]] = analyticsData[Slot[tasks[i].view]]
          /\ region'[Container[tasks[i].view]] = OwnError(tasks[i].view)
  /\ (StartsRefresh /\ ~Truthy(authToken)) =>
          \A v \in Views :
            /\ analyticsData'[Slot[v]] = analyticsData[Slot[v]]
            /\ region'[Container[v]] = OwnError(v)

C7_LastGoodValue == [][LastGoodValueKept]_vars

\* A request that was sent has failed while the slot of its view held the
\* payload of an earlier fetch, which it still holds.
C7_Witness ==
  \E i \in RefreshIndexes :
    /\ tasks[i].pc = "done" /\ tasks[i].cause = "fetch" /\ tasks[i].auth # ""
    /\ analyticsData[Slot[tasks[i].view]] # NullData
    /\ region[Container[tasks[i].view]] = OwnError(tasks[i].view)

\* C8: a fetch that succeeds stores a payload the service sent for its
\* request in the slot of its own view, leaves the other five slots alone,
\* and hands that same payload to the renderer.
SuccessStoresOwnSlot ==
  \A i \in DOMAIN tasks :
    (Settles(i) /\ tasks'[i].cause # "fetch") =>
       LET v == tasks[i].view
           d == analyticsData'[Slot[v]]
       IN /\ d \in ServerPayloads(v, tasks[i].period, tasks[i].months)
          /\ \A s \in Slots \ {Slot[v]} : analyticsData'[s] = analyticsData[s]
          /\ region' = loadViewSettle(v, [threw |-> FALSE, error |-> "none", value |-> d], region).reg

C8_SuccessStoresOwnSlot == [][SuccessStoresOwnSlot]_vars

\* A fetch has stored and drawn its payload while the slot of a view whose
\* request is still in flight holds the payload of the previous refresh.
C8_Witness ==
  \E i, j \in RefreshIndexes :
    /\ tasks[i].pc = "done" /\ tasks[i].cause = "none"
    /\ analyticsData[Slot[tasks[i].view]] = ValidPayload(tasks[i].view, currentPeriod, currentMonths)
    /\ region[Container[tasks[i].view]].data = analyticsData[Slot[tasks[i].view]]
    /\ tasks[j].pc = "net"
    /\ tasks[j].view # "trends"
    /\ analyticsData[Slot[tasks[j].view]] # NullData

\* C9: a step that changes the cache without settling a fetch (a call of
\* clearAnalyticsData) leaves all six slots absent and changes nothing else.
ClearResetsEverySlot ==
  (analyticsData' # analyticsData /\ \A i \in DOMAIN tasks : ~Settles(i)) =>
     /\ \A s \in Slots : analyticsData'[s] = NullData
     /\ UNCHANGED <<isLoading, currentPeriod, currentMonths, region, authToken, tasks,
                    loaded, pendingScripts, bound, banner, calls, gen>>

C9_ClearResetsEverySlot == [][ClearResetsEverySlot]_vars

\* The cache has been reset after two views had stored and drawn a payload.
C9_Witness ==
  /\ \A s \in Slots : analyticsData[s] = NullData
  /\ \E c, d \in Containers : c # d /\ region[c].kind = "drawn" /\ region[d].kind = "drawn"

\* C10: a selector's change handler leaves isLoading alone, writes no
\* loading placeholder, touches no region but the trends one, and issues its
\* trends fetch for the new configuration whether or not a refresh is in
\* flight; the handling of that fetch's response is as local.
SelectiveReloadStep == currentPeriod' # currentPeriod \/ currentMonths' # currentMonths

SelectiveReloadUnguarded ==
  SelectiveReloadStep =>
     /\ isLoading' = isLoading
     /\ \A c \in Containers \ {"trends-chart"} : region'[c] = region[c]
     /\ IF Truthy(authToken)
          THEN /\ region' = region
               /\ tasks' = Append(tasks, Task("trends", "select", 0, "net", "pending", "none",
                                              currentPeriod', currentMonths', getAuthHeaders(authToken)))
          ELSE /\ region'["trends-chart"] = OwnError("trends")
               /\ tasks' = tasks

\* The response of selective reload i is handled in this step.
SelectiveSettles(i) ==
  i \in DOMAIN tasks /\ tasks[i].origin = "select" /\ tasks' = Remove(tasks, i)

SelectiveSettleIsLocal ==
  \A i \in DOMAIN tasks :
    SelectiveSettles(i) =>
       /\ isLoading' = isLoading
       /\ \A c \in Containers \ {"trends-chart"} : region'[c] = region[c]
       /\ region'["trends-chart"].kind \in {"drawn", "nodata", "error"}

C10_SelectiveReloadUnguarded == [][SelectiveReloadUnguarded /\ SelectiveSettleIsLocal]_vars

\* A selective reload was launched after the six tasks of a refresh that is
\* still loading, and is in flight together with some of them.
C10_Witness ==
  /\ isLoading
  /\ \E i \in DOMAIN tasks :
       /\ tasks[i].origin = "select" /\ tasks[i].pc = "net"
       /\ \A j \in RefreshIndexes : j < i
       /\ \E j \in RefreshIndexes : tasks[j].pc = "net"

\* C11: a full refresh launches its six tasks in the order trends, category,
\* insights, predictions, velocity, forecast, all in the step that enters the
\* loading state (with a token all six requests are out before any response
\* is handled); any task in flight may be the next to complete, whatever the
\* others have done; and the refresh always comes back to idle.
LaunchedInOrder ==
  StartsRefresh =>
     /\ Len(tasks') = Len(tasks) + Len(ViewOrder)
     /\ \A k \in 1..Len(ViewOrder) :
          /\ tasks'[Len(tasks) + k].view = ViewOrder[k]
          /\ tasks'[Len(tasks) + k].origin = "refresh"
          /\ tasks'[Len(tasks) + k].gen = gen'
          /\ Truthy(authToken) => tasks'[Len(tasks) + k].pc = "net"
     /\ \A j \in DOMAIN tasks : tasks'[j] = tasks[j]

RespondTo(i) ==
  \E resp \in Responses(tasks[i].view, tasks[i].period, tasks[i].months) : Respond(i, resp)

AnyCompletionOrder ==
  \A i \in InFlight : ~MicrotaskPending => ENABLED RespondTo(i)

C11_FanOutOrder ==
  /\ [][LaunchedInOrder]_vars
  /\ []AnyCompletionOrder
  /\ []<>(~isLoading)

\* The task launched last has completed while the one launched first and one
\* in the middle are still in flight.
C11_Witness ==
  /\ isLoading
  /\ \E i, j, k \in RefreshIndexes :
       /\ tasks[i].view = "trends" /\ tasks[i].pc = "net"
       /\ tasks[j].view = "predictions" /\ tasks[j].pc = "net"
       /\ tasks[k].view = "forecast" /\ tasks[k].pc = "done"

\* C12: until the three dependency scripts have all fired onload nothing is
\* bound, fetched, cached or written; the step that passes the barrier binds
\* the handlers and makes init's one call of loadAllAnalytics; the handlers
\* stay bound, and later refreshes leave the barrier's state alone.
BarrierHolds ==
  loaded < NumDependencies =>
     /\ ~bound /\ ~isLoading /\ calls = 0 /\ gen = 0
     /\ tasks = <<>>
     /\ \A c \in Containers : region[c] = InitialContent
     /\ \A s \in Slots : analyticsData[s] = NullData

BarrierPassedOnce ==
  /\ bound => bound'
  /\ (~bound /\ bound') => (loaded' = NumDependencies /\ loaded = NumDependencies - 1 /\ calls' = 1)
  /\ (bound /\ calls' # calls) => UNCHANGED <<loaded, pendingScripts, bound>>

C12_ReadinessBarrier == []BarrierHolds /\ [][BarrierPassedOnce]_vars

\* A refresh asked for by the button has run after init's own.
C12_Witness == bound /\ loaded = NumDependencies /\ calls = 2 /\ gen = 2

\* C13: a fetch that succeeds with a payload failing the presentability
\* check (for the category breakdown: whose category list fails it) ends with
\* the no-data placeholder in the widget's region and without a throw, for
\* each of the six widgets.
Presentable(v, payload) ==
  ToBoolean(isValidData(IF v = "category" THEN CategoriesOf(payload) ELSE payload))

EmptyPayloadShowsNoData ==
  \A i \in DOMAIN tasks :
    (Settles(i) /\ tasks'[i].cause # "fetch"
       /\ ~Presentable(tasks[i].view, analyticsData'[Slot[tasks[i].view]])) =>
       /\ tasks'[i].cause = "none"
       /\ region'[Container[tasks[i].view]].kind = "nodata"

C13_EmptyPayloadShowsNoData == [][EmptyPayloadShowsNoData]_vars

\* C14: every request issued carries "Authorization: Bearer <token>" with
\* the non-empty token the store held when the fetch operation was called,
\* however the token is stored, replaced or removed around it; without such
\* a token no request is issued.
BearerHeaders == {"Bearer " \o t : t \in {u \in StoredTokens : u # ""}}

RequestsCarryBearer ==
  \A i \in DOMAIN tasks : tasks[i].pc = "net" => tasks[i].auth \in BearerHeaders

RequestCarriesStoredToken ==
  \A i \in NewTasks :
     tasks'[i].pc = "net" =>
        /\ authToken' \in StoredTokens /\ authToken' # ""
        /\ tasks'[i].auth = "Bearer " \o authToken'

C14_BearerOnEveryRequest == []RequestsCarryBearer /\ [][RequestCarriesStoredToken]_vars

\* The requests of a second refresh went out under a replacement token and
\* are in flight while the store has since been emptied.
C14_Witness ==
  /\ gen = 2 /\ authToken = ""
  /\ \E i \in InFlight : tasks[i].auth = "Bearer t2"
  /\ \E s \in Slots : analyticsData[s] # NullData

\* C15: in an engine where the driver of the refresh throws, the step that
\* starts a refresh shows one more banner, leaves every widget region as the
\* launch left it and ends idle; a banner appears in no other way; the timer
\* takes one banner away and touches nothing else; and every banner shown
\* is removed in the end.
DriverFailureHandled ==
  StartsRefresh =>
     /\ banner' = banner + 1
     /\ ~isLoading'
     /\ \A v \in Views :
          region'[Container[v]] = IF Truthy(authToken) THEN LoadingContent ELSE OwnError(v)

BannerLifeCycle ==
  /\ banner' > banner => StartsRefresh
  /\ banner' < banner =>
        /\ banner' = banner - 1
        /\ UNCHANGED <<isLoading, currentPeriod, currentMonths, region, analyticsData,
                       authToken, tasks, loaded, pendingScripts, bound, calls, gen>>

C15_DriverFailure ==
  /\ [][DriverFailureHandled /\ BannerLifeCycle]_vars
  /\ [](~isLoading /\ banner <= gen)
  /\ (banner > 0 ~> banner = 0)

\* The banner of a failed driver has come and gone while the controller is
\* idle, one widget has drawn its data and another still shows the spinner
\* of its request in flight.
C15_Witness ==
  /\ ~hasAllSettled /\ gen = 1 /\ banner = 0 /\ ~isLoading
  /\ \E i \in InFlight : region[Container[tasks[i].view]] = LoadingContent
  /\ \E c \in Containers : region[c].kind = "drawn"

\* C16: the value isValidData yields is not truthy for null, undefined, the
\* empty list and the empty mapping (the operand itself for the first two,
\* false for the others) and is true for every non-empty list and every
\* mapping with a key; each renderer that calls it (all but the velocity
\* one; the category one on the payload's category list) writes its no-data
\* placeholder and returns exactly when that value is not truthy, and
\* otherwise takes its drawing branch (which draws the payload, or throws on
\* a mapping where it needs a list).
Placeholder ==
  [v \in Views \ {"velocity"} |->
     CASE v = "trends" -> NoDataContent("No trend data available")
       [] v = "category" -> NoDataContent("No expense data available")
       [] v = "insights" -> NoDataContent("No insights available")
       [] v = "predictions" -> NoDataContent("No predictions available")
       [] v = "forecast" -> NoDataContent("No forecast data available")]

Checked(v, payload) == IF v = "category" THEN CategoriesOf(payload) ELSE payload

ExpectedValidity(data) ==
  CASE data = NullData -> "null"
    [] data = UndefinedData -> "undefined"
    [] data.shape = "list" /\ data.size = 0 -> "false"
    [] data.shape = "map" /\ data.size = 0 -> "false"
    [] data.shape = "list" /\ data.size >= 1 -> "true"
    [] data.shape = "map" /\ data.size >= 1 -> "true"

C16_IsValidDataDecides ==
  (rendered.calls > 0 /\ rendered.view # "velocity" /\ Container[rendered.view] \in DOMAIN region) =>
     LET c == Container[rendered.view] IN
     /\ rendered.gate = ExpectedValidity(Checked(rendered.view, rendered.payload))
     /\ rendered.gate \in {"null", "undefined", "false"} =>
           (region[c] = Placeholder[rendered.view] /\ ~rendered.threw)
     /\ rendered.gate = "true" =>
           IF rendered.threw
             THEN rendered.payload.shape = "map"
                  /\ rendered.view \in {"trends", "insights", "predictions"}
             ELSE region[c] = DrawnContent(rendered.view, rendered.payload)

\* The forecast renderer was given the empty mapping and wrote its
\* placeholder over an error message.
C16_Witness ==
  /\ rendered.calls = 1 /\ rendered.view = "forecast" /\ rendered.payload = MapData(0, -1)
  /\ rendered.gate = "false"
  /\ region["forecast-widget"] = Placeholder["forecast"]
  /\ "trends-chart" \in DOMAIN region /\ region["trends-chart"].kind = "error"

\* C17: a renderer called again with the valid payload of its previous call
\* leaves every region as that call left it, whatever the container held
\* before the first call.
RenderedTwice == rendered'.calls = rendered.calls + 1 /\ rendered'.again

RenderIsIdempotent ==
  (RenderedTwice /\ Presentable(rendered.view, rendered.payload)) =>
     /\ region' = region
     /\ rendered'.threw = rendered.threw

C17_RenderIdempotent == [][RenderIsIdempotent]_vars

\* The trends chart has been drawn twice from the same list over a loading
\* placeholder.
C17_Witness ==
  /\ rendered.calls = 2 /\ rendered.again /\ rendered.view = "trends"
  /\ rendered.payload = ListData(2)
  /\ "trends-chart" \in DOMAIN region
  /\ region["trends-chart"] = DrawnContent("trends", ListData(2))
  /\ "velocity-widget" \in DOMAIN region /\ region["velocity-widget"] = LoadingContent

\* C18: once every script load attempt has ended and nothing is left in
\* flight or queued, either init has bound the triggers and a full refresh
\* has completed, or a failure message is visible (a banner or an error
\* message in a region).
AllSettledDown ==
  /\ pendingScripts = 0
  /\ tasks = <<>>
  /\ ~isLoading

VisibleFailure == banner > 0 \/ \E c \in DOMAIN region : region[c].kind = "error"

C18_NeverSilent == AllSettledDown => ((bound /\ gen >= 1) \/ VisibleFailure)

\* C19: the continuation of a widget task renders the payload its own fetch
\* returned (the data the service computed for the task's own request),
\* whatever the cache slot of the view holds by then.
Renders(i) ==
  /\ i \in DOMAIN tasks /\ tasks[i].pc = "got"
  /\ \/ tasks' = Remove(tasks, i)
     \/ (i \in DOMAIN tasks' /\ tasks'[i].pc = "done" /\ Len(tasks') = Len(tasks))

RendersOwnPayload ==
  \A i \in DOMAIN tasks :
    Renders(i) =>
       LET v == tasks[i].view IN
       /\ region'[Container[v]] = DrawnContent(v, ValidPayload(v, tasks[i].period, tasks[i].months))
       /\ analyticsData' = analyticsData

C19_RendersOwnPayload == [][RendersOwnPayload]_vars

\* The trends task of the refresh has rendered its six-month data last,
\* after the three-month data of a month-window reload had replaced it in
\* the slot; the slot of another drawn widget has been reset.
C19_Witness ==
  /\ currentMonths = 3 /\ SelectTasks = {}
  /\ \A i \in DOMAIN tasks : tasks[i].pc # "got"
  /\ region["trends-chart"] = DrawnContent("trends", ValidPayload("trends", "monthly", DefaultMonths))
  /\ analyticsData["trends"] = ValidPayload("trends", "monthly", 3)
  /\ \E v \in Views \ {"trends"} :
       region[Container[v]].kind = "drawn" /\ analyticsData[Slot[v]] = NullData

\* C20: the configuration is (monthly, 6) until the handlers are bound; it
\* is left alone by every call of loadAllAnalytics, every response handled
\* (data or failure), every join, every cache reset and every script event;
\* a step that changes it is a selector's handler, changes one of the two
\* values and nothing of the controller's other state; and every trends task
\* is launched with the period and months the configuration then holds.
ConfigAtStart == ~bound => (currentPeriod = "monthly" /\ currentMonths = DefaultMonths)

OtherStep ==
  \/ calls' # calls
  \/ \E i \in DOMAIN tasks : Settles(i) \/ SelectiveSettles(i)
  \/ isLoading /\ ~isLoading'
  \/ analyticsData' # analyticsData
  \/ pendingScripts' # pendingScripts

ConfigFrame ==
  /\ OtherStep => UNCHANGED <<currentPeriod, currentMonths>>
  /\ SelectiveReloadStep =>
        /\ bound
        /\ (currentPeriod' = currentPeriod) # (currentMonths' = currentMonths)
        /\ UNCHANGED <<isLoading, analyticsData, authToken, loaded, pendingScripts, bound,
                       banner, calls, gen>>

TrendsFetchUsesConfig ==
  \A i \in NewTasks :
    tasks'[i].view = "trends" =>
       (tasks'[i].period = currentPeriod' /\ tasks'[i].months = currentMonths')

C20_ConfigFrame == []ConfigAtStart /\ [][ConfigFrame /\ TrendsFetchUsesConfig]_vars

\* Both selectors have been used, and the trends request of a later full
\* refresh is in flight with the weekly period and the three-month window.
C20_Witness ==
  /\ currentPeriod = "weekly" /\ currentMonths = 3 /\ gen = 2
  /\ \E i \in RefreshIndexes :
       /\ tasks[i].view = "trends" /\ tasks[i].pc = "net"
       /\ tasks[i].period = "weekly" /\ tasks[i].months = 3

\* C21: a call of a renderer leaves every region but its own widget's as it
\* was, adds and removes no container, and leaves the configuration, the
\* loading flag, the cache, the token and the set of requests alone; when the
\* widget's container is not in the document the call changes nothing and
\* does not throw, whatever the payload (null and undefined included).
RendererCalled == rendered'.calls = rendered.calls + 1

RenderWritesOwnRegion ==
  RendererCalled =>
     LET c == Container[rendered.view] IN
     /\ rendered'.view = rendered.view
     /\ DOMAIN region' = DOMAIN region
     /\ \A d \in DOMAIN region \ {c} : region'[d] = region[d]
     /\ UNCHANGED <<isLoading, currentPeriod, currentMonths, analyticsData, authToken, tasks,
                    banner, calls, gen>>
     /\ c \notin DOMAIN region => (region' = region /\ ~rendered'.threw)

C21_RenderFrame == [][RenderWritesOwnRegion]_vars

\* The velocity renderer was given null in a document without its container
\* and returned; the other five regions still show their spinners.
C21_Witness ==
  /\ rendered.calls >= 1 /\ rendered.view = "velocity" /\ rendered.payload = NullData
  /\ ~rendered.threw
  /\ DOMAIN region = Containers \ {"velocity-widget"}
  /\ \A d \in DOMAIN region : region[d] = LoadingContent

\* C22: whenever no trends task is in flight and the most recently launched
\* trends task succeeded, the trends region shows the data fetched for the
\* current period and month window.  (With a token in the store and a
\* service that answers every request with data, every launched trends task
\* succeeds, so the most recent one has succeeded as soon as none is in
\* flight.)
TrendsInFlight == \E i \in InFlight : tasks[i].view = "trends"

TrendsData == {ValidPayload("trends", p, m) : p \in Periods, m \in MonthsValues}

TrendsSettles(i) ==
  /\ i \in DOMAIN tasks /\ tasks[i].view = "trends" /\ tasks[i].pc = "net"
  /\ \/ tasks[i].origin = "refresh" /\ Len(tasks') = Len(tasks) /\ Settles(i)
     \/ SelectiveSettles(i)

LastWriteWins ==
  /\ \A i \in DOMAIN tasks :
       TrendsSettles(i) =>
          region'["trends-chart"] \in
             {DrawnContent("trends", ValidPayload("trends", tasks[i].period, tasks[i].months)),
              NoDataContent("No trend data available"), OwnError("trends")}
  /\ region'["trends-chart"] # region["trends-chart"] =>
       \/ StartsRefresh
       \/ SelectiveReloadStep /\ ~Truthy(authToken)
       \/ \E i \in DOMAIN tasks : TrendsSettles(i)

QuiescentShowsAFetch ==
  (bound /\ Truthy(authToken) /\ ~TrendsInFlight) =>
     (region["trends-chart"].kind = "drawn" /\ region["trends-chart"].data \in TrendsData)

LaunchedAfterReset(i) == tasks[i].gen > clearedAt

SlotFilled(v) == analyticsData[Slot[v]] = NullData /\ analyticsData'[Slot[v]] # NullData

FilledByFreshFetch ==
  \A v \in Views :
    SlotFilled(v) =>
       \E i \in RefreshIndexes :
          tasks[i].view = v /\ Len(tasks') = Len(tasks) /\ Settles(i) /\ LaunchedAfterReset(i)

C23_ClearedStaysCleared == [][FilledByFreshFetch]_vars

\* C24: the width of the velocity widget's progress bar, in percent, is 100
\* times min(1, dayOfMonth / 30) for every day of the month: the fraction is
\* 1/2 on day 15, 1 on days 30 and 31, and never more than 1.
ProgressFraction(day) == IF day >= 30 THEN Number(1) ELSE Reduce(<<day, 30>>)

C24_VelocityProgress ==
  (rendered.calls > 0 /\ "velocity-widget" \in DOMAIN region) =>
     LET day == rendered.payload.dayOfMonth
         percent == region["velocity-widget"].width
         fraction == Divide(percent, Number(100))
     IN /\ region["velocity-widget"].kind = "drawn"
        /\ fraction = ProgressFraction(day)
        /\ percent = Times(ProgressFraction(day), Number(100))
        /\ day = 15 => (fraction = <<1, 2>> /\ percent = Number(50))
        /\ day \in {30, 31} => (fraction = Number(1) /\ percent = Number(100))
        /\ LessOrEqual(fraction, Number(1))

\* The widget was drawn for day 31 over the widget of another day: the bar
\* is full.
C24_Witness ==
  /\ rendered.calls = 2 /\ ~rendered.again /\ rendered.payload = VelocityData(31)
  /\ "velocity-widget" \in DOMAIN region
  /\ region["velocity-widget"].width = Number(100)

\* C25: the server configures its sockets and routes and listens only after
\* mongoose.connect has resolved and every service's init() has returned,
\* in that order; a service is initialised only after the connection; when
\* the connection or an init() fails nothing is configured, the server never
\* listens and the process exits with code 1; and no client is connected to
\* a server that is not listening.
Did(e) == \E k \in DOMAIN server.done : server.done[k] = e

\* Where e stands in the sequence of effects (each occurs once at most).
Place(e) == IF Did(e) THEN CHOOSE k \in DOMAIN server.done : server.done[k] = e ELSE 0

Before(a, b) == Place(a) > 0 /\ Place(a) < Place(b)

StartupOrder ==
  /\ \A e \in {"socketio", "routes", "listen"} :
       Did(e) => (Before("connected", e) /\ \A svc \in Services : Before(svc, e))
  /\ Did("routes") => Before("socketio", "routes")
  /\ Did("listen") => Before("routes", "listen")
  /\ \A svc \in Services : Did(svc) => Before("connected", svc)
  /\ server.pc \in {"up", "listening"} <=> Did("listen")

FailureStopsStartup ==
  (Did("error") \/ (server.pc \notin {"off", "connecting"} /\ \E svc \in Services : ~Did(svc))) =>
     /\ ~Did("socketio") /\ ~Did("routes") /\ ~Did("listen")
     /\ server.pc = "exited" /\ server.exitCode = 1
     /\ server.done[Len(server.done)] = "exit"

OnlyAListeningServerHasClients ==
  server.pc # "listening" => \A c \in Clients : sockets[c] = NoSocket

ExitIsFinal == server.pc = "exited" => (server' = server /\ sockets' = sockets)

C25_StartupOrder ==
  /\ [](StartupOrder /\ FailureStopsStartup /\ OnlyAListeningServerHasClients)
  /\ [][ExitIsFinal]_vars

\* The database connected, two services were initialised and the init() of
\* the third threw: the process has exited with code 1 without listening.
C25_Witness ==
  /\ server.pc = "exited" /\ server.exitCode = 1
  /\ server.done = <<"middleware", "connected", "CronJobs", "aiService", "error", "exit">>

\* C26: every sync_request a connected client has emitted gets exactly one
\* reply, sync_data (the queue of that client's user) or sync_error: at no
\* time are there more replies and queries under way than requests, every
\* reply is for the socket's own user, and once the connection handler has
\* finished and no query is under way each request has its reply, also
\* those emitted while the handler awaited the workspace list and whether
\* or not that lookup failed.
AtMostOneReply(c) == Len(sockets[c].replies) + sockets[c].finds <= sockets[c].sent

OwnReplies(c) ==
  \A k \in DOMAIN sockets[c].replies :
     sockets[c].replies[k] \in {syncReply(c, TRUE), syncReply(c, FALSE)}

AllAnswered(c) ==
  (sockets[c].open /\ sockets[c].pc = "ready" /\ sockets[c].finds = 0) =>
     Len(sockets[c].replies) = sockets[c].sent

C26_EverySyncRequestAnswered ==
  \A c \in Clients : AtMostOneReply(c) /\ OwnReplies(c) /\ AllAnswered(c)

====
